---- MODULE Spec2Model ----
(***************************************************************************)
(* Weighted reduction kernels and the method registry of                   *)
(* xugrid/regrid/reduce.py.                                                *)
(*                                                                         *)
(* Floating-point numbers are modelled as exact rationals <<n, d>> in      *)
(* lowest terms with d > 0; the not-a-number value is <<0, 0>>.  Array     *)
(* offsets are 0-based as in the source (At reads a sequence 0-based).     *)
(* Every kernel is a small-step machine: one step is one loop iteration    *)
(* (or the code before/after a loop).  A whole call runs the machine to    *)
(* its end (Run); concurrent calls interleave the same steps.              *)
(***************************************************************************)
EXTENDS Integers, Sequences, FiniteSets, TLC

\* ------------------------------------------------------------- bounds
\* number of source cells: len(values) ranges over 1..NumCells
NumCells == 2
\* longest indices/weights slice of one destination cell
MaxLen == 2
\* number of concurrent kernel calls in SpecConc
NumProcs == 2

\* ------------------------------------------------------------- floats
NaN == <<0, 0>>

Abs(n) == IF n < 0 THEN -n ELSE n

RECURSIVE GCD(_, _)
GCD(a, b) == IF b = 0 THEN a ELSE GCD(b, a % b)

\* the rational n/d in lowest terms, d > 0
Norm(n, d) ==
    IF d = 0 THEN NaN
    ELSE LET g == GCD(Abs(n), Abs(d))
             s == IF d < 0 THEN -1 ELSE 1
         IN  <<(s * n) \div g, (s * d) \div g>>

\* the float of an integer literal
F(n) == <<n, 1>>

\* np.isnan
isnan(x) == x = NaN

\* a + b, a * b, a / b; not-a-number propagates
FAdd(a, b) == IF isnan(a) \/ isnan(b) THEN NaN
              ELSE Norm(a[1] * b[2] + b[1] * a[2], a[2] * b[2])
FSub(a, b) == IF isnan(a) \/ isnan(b) THEN NaN
              ELSE Norm(a[1] * b[2] - b[1] * a[2], a[2] * b[2])
FMul(a, b) == IF isnan(a) \/ isnan(b) THEN NaN
              ELSE Norm(a[1] * b[1], a[2] * b[2])
FDiv(a, b) == IF isnan(a) \/ isnan(b) THEN NaN
              ELSE Norm(a[1] * b[2], a[2] * b[1])

\* a == b, a < b, a > b; every comparison with not-a-number is false
FEq(a, b) == ~isnan(a) /\ ~isnan(b) /\ a = b
FLt(a, b) == ~isnan(a) /\ ~isnan(b) /\ a[1] * b[2] < b[1] * a[2]
FGt(a, b) == FLt(b, a)

\* abs(v)
FAbs(a) == IF isnan(a) THEN NaN ELSE <<Abs(a[1]), a[2]>>

RECURSIVE IPow(_, _)
IPow(b, e) == IF e <= 0 THEN 1 ELSE b * IPow(b, e - 1)

\* exp(w * log(a)) = a ** w for a > 0 and an integer-valued w > 0
FPow(a, w) == <<IPow(a[1], w[1]), IPow(a[2], w[1])>>

\* b ** e, or some number above cap when b ** e is above cap
RECURSIVE CPow(_, _, _)
CPow(b, e, cap) ==
    IF e <= 0 THEN 1
    ELSE LET q == CPow(b, e - 1, cap) IN IF q > cap THEN q ELSE b * q

\* exp((1.0 / w) * log(p)) = p ** (1 / w) for p > 0 and an integer-valued
\* w > 0: the rational w-th root of p when it has one, and otherwise the
\* irrational number written <<"root", n, d, w>>
FRoot(p, w) ==
    LET rn == {r \in 0..p[1] : CPow(r, w[1], p[1]) = p[1]}
        rd == {r \in 1..p[2] : CPow(r, w[1], p[2]) = p[2]}
    IN  IF rn # {} /\ rd # {}
        THEN <<CHOOSE r \in rn : TRUE, CHOOSE r \in rd : TRUE>>
        ELSE <<"root", p[1], p[2], w[1]>>

\* (-1.0) ** m * x
FSign(m, x) ==
    IF m % 2 = 0 THEN x
    ELSE IF Len(x) = 2 THEN <<-x[1], x[2]>>
    ELSE <<"-root", x[2], x[3], x[4]>>

\* ------------------------------------------------------------- memory
\* the three arrays a kernel is called with
Mem(v, i, w) == [values |-> v, indices |-> i, weights |-> w]

\* seq[i] with a 0-based i
At(seq, i) == seq[i + 1]

\* True when seq[i] is inside the array (no negative offsets arise)
InBounds(seq, i) == i >= 0 /\ i < Len(seq)

\* how many pairs zip(indices, weights) yields
ZipLen(mem) == IF Len(mem.indices) < Len(mem.weights)
               THEN Len(mem.indices) ELSE Len(mem.weights)

\* the end of a call: a returned value, or a raised exception
Return(x, mem) == [st |-> [pc |-> "done", ret |-> x], mem |-> mem]
Raise(e, mem) == [st |-> [pc |-> "raise", exc |-> e], mem |-> mem]
Goto(st, mem) == [st |-> st, mem |-> mem]

\* ------------------------------------------------------------- kernels
\* mean: weighted arithmetic mean
mean_init == [pc |-> "loop", k |-> 0, vsum |-> F(0), wsum |-> F(0)]

mean_step(st, mem) ==
    IF st.k < ZipLen(mem)
    THEN LET i == At(mem.indices, st.k)
             w == At(mem.weights, st.k)
             v == At(mem.values, i)
         IN  IF isnan(v)
             THEN Goto([st EXCEPT !.k = @ + 1], mem)
             ELSE Goto([st EXCEPT !.k = @ + 1,
                                  !.vsum = FAdd(@, FMul(w, v)),
                                  !.wsum = FAdd(@, w)], mem)
    ELSE IF FEq(st.wsum, F(0))
         THEN Return(NaN, mem)
         ELSE Return(FDiv(st.vsum, st.wsum), mem)

\* harmonic_mean: weighted harmonic mean
harmonic_mean_init == [pc |-> "loop", k |-> 0, v_agg |-> F(0), w_sum |-> F(0)]

harmonic_mean_step(st, mem) ==
    IF st.k < ZipLen(mem)
    THEN LET i == At(mem.indices, st.k)
             w == At(mem.weights, st.k)
             v == At(mem.values, i)
         IN  IF isnan(v) \/ FEq(v, F(0))
             THEN Goto([st EXCEPT !.k = @ + 1], mem)
             ELSE IF FGt(w, F(0))
             THEN Goto([st EXCEPT !.k = @ + 1,
                                  !.w_sum = FAdd(@, w),
                                  !.v_agg = FAdd(@, FDiv(w, v))], mem)
             ELSE Goto([st EXCEPT !.k = @ + 1], mem)
    ELSE IF FEq(st.v_agg, F(0)) \/ FEq(st.w_sum, F(0))
         THEN Return(NaN, mem)
         ELSE Return(FDiv(st.w_sum, st.v_agg), mem)

\* geometric_mean: weighted geometric mean.  v_agg holds exp(v_agg) of the
\* source, the product of abs(v) ** w, so that the sum of logarithms is exact.
geometric_mean_init ==
    [pc |-> "norm", k |-> 0, normsum |-> F(0),
     v_agg |-> F(1), w_sum |-> F(0), m |-> 0]

geometric_mean_step(st, mem) ==
    IF st.pc = "norm"
    THEN IF st.k < ZipLen(mem)
         THEN Goto([st EXCEPT !.k = @ + 1,
                              !.normsum = FAdd(@, At(mem.weights, st.k))], mem)
         ELSE IF FEq(st.normsum, F(0))
              THEN Return(NaN, mem)
              ELSE Goto([st EXCEPT !.pc = "loop", !.k = 0], mem)
    ELSE IF st.k < ZipLen(mem)
    THEN LET i == At(mem.indices, st.k)
             w == At(mem.weights, st.k)
             v == At(mem.values, i)
         IN  IF isnan(v) \/ FEq(v, F(0))
             THEN Goto([st EXCEPT !.k = @ + 1], mem)
             ELSE IF FGt(w, F(0))
             THEN Goto([st EXCEPT !.k = @ + 1,
                                  !.v_agg = FMul(@, FPow(FAbs(v), w)),
                                  !.w_sum = FAdd(@, w),
                                  !.m = IF FLt(v, F(0)) THEN @ + 1 ELSE @], mem)
             ELSE Goto([st EXCEPT !.k = @ + 1], mem)
    ELSE IF FEq(st.w_sum, F(0))
         THEN Return(NaN, mem)
         ELSE Return(FSign(st.m, FRoot(st.v_agg, st.w_sum)), mem)

\* sum: unweighted sum of the values, gated by the weight total
sum_init == [pc |-> "loop", k |-> 0, v_sum |-> F(0), w_sum |-> F(0)]

\* sum without the gate on the weight total
sum_step_ungated(st, mem) ==
    IF st.k < ZipLen(mem)
    THEN LET i == At(mem.indices, st.k)
             w == At(mem.weights, st.k)
             v == At(mem.values, i)
         IN  IF isnan(v)
             THEN Goto([st EXCEPT !.k = @ + 1], mem)
             ELSE Goto([st EXCEPT !.k = @ + 1,
                                  !.v_sum = FAdd(@, v),
                                  !.w_sum = FAdd(@, w)], mem)
    ELSE Return(st.v_sum, mem)

sum_step(st, mem) ==
    IF st.k < ZipLen(mem)
    THEN LET i == At(mem.indices, st.k)
             w == At(mem.weights, st.k)
             v == At(mem.values, i)
         IN  IF isnan(v)
             THEN Goto([st EXCEPT !.k = @ + 1], mem)
             ELSE Goto([st EXCEPT !.k = @ + 1,
                                  !.v_sum = FAdd(@, v),
                                  !.w_sum = FAdd(@, w)], mem)
    ELSE IF FEq(st.w_sum, F(0))
         THEN Return(NaN, mem)
         ELSE Return(st.v_sum, mem)

\* minimum: seeded from values[indices[0]], then one pass over indices
minimum_init == [pc |-> "seed", k |-> 0, vmin |-> NaN]

minimum_step(st, mem) ==
    IF st.pc = "seed"
    THEN IF ~InBounds(mem.indices, 0)
         THEN Raise("IndexError", mem)
         ELSE Goto([st EXCEPT !.pc = "loop",
                              !.vmin = At(mem.values, At(mem.indices, 0))], mem)
    ELSE IF st.k < Len(mem.indices)
    THEN LET v == At(mem.values, At(mem.indices, st.k))
         IN  IF isnan(v)
             THEN Goto([st EXCEPT !.k = @ + 1], mem)
             ELSE IF FLt(v, st.vmin)
             THEN Goto([st EXCEPT !.k = @ + 1, !.vmin = v], mem)
             ELSE Goto([st EXCEPT !.k = @ + 1], mem)
    ELSE Return(st.vmin, mem)

\* maximum: seeded from values[indices[0]], then one pass over indices
maximum_init == [pc |-> "seed", k |-> 0, vmax |-> NaN]

maximum_step(st, mem) ==
    IF st.pc = "seed"
    THEN IF ~InBounds(mem.indices, 0)
         THEN Raise("IndexError", mem)
         ELSE Goto([st EXCEPT !.pc = "loop",
                              !.vmax = At(mem.values, At(mem.indices, 0))], mem)
    ELSE IF st.k < Len(mem.indices)
    THEN LET v == At(mem.values, At(mem.indices, st.k))
         IN  IF isnan(v)
             THEN Goto([st EXCEPT !.k = @ + 1], mem)
             ELSE IF FGt(v, st.vmax)
             THEN Goto([st EXCEPT !.k = @ + 1, !.vmax = v], mem)
             ELSE Goto([st EXCEPT !.k = @ + 1], mem)
    ELSE Return(st.vmax, mem)

\* mode: area-weighted mode, the weights array reused as the frequency count.
\*   "outer": one iteration of the loop over zip(indices, weights)
\*   "inner": one iteration of the loop over range(running_total)
\*   "scan" : one iteration of the loop over range(s)
mode_init ==
    [pc |-> "outer", k |-> 0, j |-> 0, w_sum |-> 0,
     v |-> NaN, w |-> NaN, w_max |-> F(0)]

\* mode marking a merged cell as consumed in the values array
mode_step_marks_values(st, mem) ==
    LET s == Len(mem.indices) IN
    IF st.pc = "outer"
    THEN IF st.k < ZipLen(mem)
         THEN LET i == At(mem.indices, st.k)
                  w == At(mem.weights, st.k)
                  v == At(mem.values, i)
              IN  IF isnan(v)
                  THEN Goto([st EXCEPT !.k = @ + 1, !.v = v, !.w = w], mem)
                  ELSE Goto([st EXCEPT !.pc = "inner", !.j = 0, !.v = v, !.w = w,
                                       !.w_sum = @ + 1], mem)
         ELSE IF st.w_sum = 0
              THEN Return(NaN, mem)
              ELSE Goto([st EXCEPT !.pc = "scan", !.k = 0, !.w_max = F(0)], mem)
    ELSE IF st.pc = "inner"
    THEN IF st.j < st.k
         THEN IF ~InBounds(mem.values, st.j)
              THEN Raise("IndexError", mem)
              ELSE IF FEq(At(mem.values, st.j), st.v)
              THEN Goto([st EXCEPT !.pc = "outer", !.k = @ + 1],
                        [mem EXCEPT !.weights[st.j + 1] = FAdd(@, st.w),
                                    !.values[At(mem.indices, st.k) + 1] = NaN])
              ELSE Goto([st EXCEPT !.j = @ + 1], mem)
         ELSE Goto([st EXCEPT !.pc = "outer", !.k = @ + 1], mem)
    ELSE IF st.k < s
    THEN IF ~InBounds(mem.weights, st.k)
         THEN Raise("IndexError", mem)
         ELSE LET w == At(mem.weights, st.k)
              IN  IF FGt(w, st.w_max)
                  THEN IF ~InBounds(mem.values, st.k)
                       THEN Raise("IndexError", mem)
                       ELSE Goto([st EXCEPT !.k = @ + 1, !.w = w, !.w_max = w,
                                            !.v = At(mem.values, st.k)], mem)
                  ELSE Goto([st EXCEPT !.k = @ + 1, !.w = w], mem)
    ELSE Return(st.v, mem)

\* mode counting in the values array instead of the weights array
mode_step_in_values(st, mem) ==
    LET s == Len(mem.indices) IN
    IF st.pc = "outer"
    THEN IF st.k < ZipLen(mem)
         THEN LET i == At(mem.indices, st.k)
                  w == At(mem.weights, st.k)
                  v == At(mem.values, i)
              IN  IF isnan(v)
                  THEN Goto([st EXCEPT !.k = @ + 1, !.v = v, !.w = w], mem)
                  ELSE Goto([st EXCEPT !.pc = "inner", !.j = 0, !.v = v, !.w = w,
                                       !.w_sum = @ + 1], mem)
         ELSE IF st.w_sum = 0
              THEN Return(NaN, mem)
              ELSE Goto([st EXCEPT !.pc = "scan", !.k = 0, !.w_max = F(0)], mem)
    ELSE IF st.pc = "inner"
    THEN IF st.j < st.k
         THEN IF ~InBounds(mem.values, st.j)
              THEN Raise("IndexError", mem)
              ELSE IF FEq(At(mem.values, st.j), st.v)
              THEN Goto([st EXCEPT !.pc = "outer", !.k = @ + 1],
                        [mem EXCEPT !.values[st.j + 1] = FAdd(@, st.w)])
              ELSE Goto([st EXCEPT !.j = @ + 1], mem)
         ELSE Goto([st EXCEPT !.pc = "outer", !.k = @ + 1], mem)
    ELSE IF st.k < s
    THEN IF ~InBounds(mem.weights, st.k)
         THEN Raise("IndexError", mem)
         ELSE LET w == At(mem.weights, st.k)
              IN  IF FGt(w, st.w_max)
                  THEN IF ~InBounds(mem.values, st.k)
                       THEN Raise("IndexError", mem)
                       ELSE Goto([st EXCEPT !.k = @ + 1, !.w = w, !.w_max = w,
                                            !.v = At(mem.values, st.k)], mem)
                  ELSE Goto([st EXCEPT !.k = @ + 1, !.w = w], mem)
    ELSE Return(st.v, mem)

mode_step(st, mem) ==
    LET s == Len(mem.indices) IN
    IF st.pc = "outer"
    THEN IF st.k < ZipLen(mem)
         THEN LET i == At(mem.indices, st.k)
                  w == At(mem.weights, st.k)
                  v == At(mem.values, i)
              IN  IF isnan(v)
                  THEN Goto([st EXCEPT !.k = @ + 1, !.v = v, !.w = w], mem)
                  ELSE Goto([st EXCEPT !.pc = "inner", !.j = 0, !.v = v, !.w = w,
                                       !.w_sum = @ + 1], mem)
         ELSE IF st.w_sum = 0
              THEN Return(NaN, mem)
              ELSE Goto([st EXCEPT !.pc = "scan", !.k = 0, !.w_max = F(0)], mem)
    ELSE IF st.pc = "inner"
    THEN IF st.j < st.k
         THEN IF ~InBounds(mem.values, st.j)
              THEN Raise("IndexError", mem)
              ELSE IF FEq(At(mem.values, st.j), st.v)
              THEN Goto([st EXCEPT !.pc = "outer", !.k = @ + 1],
                        [mem EXCEPT !.weights[st.j + 1] = FAdd(@, st.w)])
              ELSE Goto([st EXCEPT !.j = @ + 1], mem)
         ELSE Goto([st EXCEPT !.pc = "outer", !.k = @ + 1], mem)
    ELSE IF st.k < s
    THEN IF ~InBounds(mem.weights, st.k)
         THEN Raise("IndexError", mem)
         ELSE LET w == At(mem.weights, st.k)
              IN  IF FGt(w, st.w_max)
                  THEN IF ~InBounds(mem.values, st.k)
                       THEN Raise("IndexError", mem)
                       ELSE Goto([st EXCEPT !.k = @ + 1, !.w = w, !.w_max = w,
                                            !.v = At(mem.values, st.k)], mem)
                  ELSE Goto([st EXCEPT !.k = @ + 1, !.w = w], mem)
    ELSE Return(st.v, mem)

\* Seq of the non-nodata entries of values[indices]
RECURSIVE NotNan(_, _)
NotNan(mem, k) ==
    IF k >= Len(mem.indices) THEN <<>>
    ELSE LET v == At(mem.values, At(mem.indices, k))
         IN  IF isnan(v) THEN NotNan(mem, k + 1) ELSE <<v>> \o NotNan(mem, k + 1)

\* xs in ascending order
RECURSIVE Sorted(_)
Sorted(xs) ==
    IF xs = <<>> THEN <<>>
    ELSE LET lo == CHOOSE p \in 1..Len(xs) : \A q \in 1..Len(xs) : ~FLt(xs[q], xs[p])
         IN  <<xs[lo]>> \o Sorted(SubSeq(xs, 1, lo - 1) \o SubSeq(xs, lo + 1, Len(xs)))

\* np.nanpercentile(a, 50): nodata dropped, linear interpolation between the
\* two middle order statistics, nodata for an empty or all-nodata array
nanpercentile50(mem) ==
    LET xs == Sorted(NotNan(mem, 0))
        n == Len(xs)
        lo == (n - 1) \div 2
        hi == n \div 2
    IN  IF n = 0 THEN NaN
        ELSE FAdd(At(xs, lo), FMul(FSub(At(xs, hi), At(xs, lo)), <<(n - 1) % 2, 2>>))

\* median: one library call on the copy values[indices]
median_init == [pc |-> "call"]

median_step(st, mem) == Return(nanpercentile50(mem), mem)

\* conductance: weighted sum, not divided by the weight total
conductance_init == [pc |-> "loop", k |-> 0, v_agg |-> F(0), w_sum |-> F(0)]

conductance_step(st, mem) ==
    IF st.k < ZipLen(mem)
    THEN LET i == At(mem.indices, st.k)
             w == At(mem.weights, st.k)
             v == At(mem.values, i)
         IN  IF isnan(v)
             THEN Goto([st EXCEPT !.k = @ + 1], mem)
             ELSE Goto([st EXCEPT !.k = @ + 1,
                                  !.v_agg = FAdd(@, FMul(v, w)),
                                  !.w_sum = FAdd(@, w)], mem)
    ELSE IF FEq(st.w_sum, F(0))
         THEN Return(NaN, mem)
         ELSE Return(st.v_agg, mem)

\* max_overlap: the value of the cell with the largest weight
max_overlap_init == [pc |-> "loop", k |-> 0, max_w |-> F(0), v |-> NaN]

\* max_overlap raising its weight bar only for a cell that holds a value
max_overlap_step_valid_only(st, mem) ==
    IF st.k < ZipLen(mem)
    THEN LET i == At(mem.indices, st.k)
             w == At(mem.weights, st.k)
         IN  IF FGt(w, st.max_w)
             THEN LET v_temp == At(mem.values, i)
                  IN  IF isnan(v_temp)
                      THEN Goto([st EXCEPT !.k = @ + 1], mem)
                      ELSE Goto([st EXCEPT !.k = @ + 1, !.max_w = w, !.v = v_temp], mem)
             ELSE Goto([st EXCEPT !.k = @ + 1], mem)
    ELSE Return(st.v, mem)

max_overlap_step(st, mem) ==
    IF st.k < ZipLen(mem)
    THEN LET i == At(mem.indices, st.k)
             w == At(mem.weights, st.k)
         IN  IF FGt(w, st.max_w)
             THEN LET v_temp == At(mem.values, i)
                  IN  IF isnan(v_temp)
                      THEN Goto([st EXCEPT !.k = @ + 1, !.max_w = w], mem)
                      ELSE Goto([st EXCEPT !.k = @ + 1, !.max_w = w, !.v = v_temp], mem)
             ELSE Goto([st EXCEPT !.k = @ + 1], mem)
    ELSE Return(st.v, mem)

\* ------------------------------------------------------------- dispatch
\* the names registered in OVERLAP_METHODS
Names == {"mean", "harmonic_mean", "geometric_mean", "sum", "minimum",
          "maximum", "mode", "median", "conductance", "max_overlap"}

\* the state of a kernel function at its entry
Entry(name) ==
    CASE name = "mean" -> mean_init
      [] name = "harmonic_mean" -> harmonic_mean_init
      [] name = "geometric_mean" -> geometric_mean_init
      [] name = "sum" -> sum_init
      [] name = "minimum" -> minimum_init
      [] name = "maximum" -> maximum_init
      [] name = "mode" -> mode_init
      [] name = "median" -> median_init
      [] name = "conductance" -> conductance_init
      [] name = "max_overlap" -> max_overlap_init

\* one step of the kernel function called name
Step(name, st, mem) ==
    CASE name = "mean" -> mean_step(st, mem)
      [] name = "harmonic_mean" -> harmonic_mean_step(st, mem)
      [] name = "geometric_mean" -> geometric_mean_step(st, mem)
      [] name = "sum" -> sum_step(st, mem)
      [] name = "minimum" -> minimum_step(st, mem)
      [] name = "maximum" -> maximum_step(st, mem)
      [] name = "mode" -> mode_step(st, mem)
      [] name = "median" -> median_step(st, mem)
      [] name = "conductance" -> conductance_step(st, mem)
      [] name = "max_overlap" -> max_overlap_step(st, mem)

Ended(st) == st.pc \in {"done", "raise"}

\* a kernel function run from the point r to its return or raise, nothing
\* interleaved
RECURSIVE Run(_, _)
Run(name, r) ==
    IF Ended(r.st) THEN r ELSE Run(name, Step(name, r.st, r.mem))

\* kernel(values, indices, weights): the call's end state and the arrays after it
Call(name, mem) == Run(name, Goto(Entry(name), mem))

\* ------------------------------------------------------------- registry
\* Python values handed to get_method: a str, a function, or anything else
Str(x) == [type |-> "str", val |-> x]
Fn(x) == [type |-> "function", val |-> x]
Other(t, x) == [type |-> t, val |-> x]

\* isinstance(method, str), callable(method)
IsStr(method) == method.type = "str"
IsCallable(method) == method.type = "function"

\* the registry: name -> (kernel, is_relative)
OVERLAP_METHODS == [n \in Names |-> <<Fn(n), n = "conductance">>]

\* get_method taking the flag of a registered name from its relative argument
get_method_flag_from_arg(method, mapping, relative) ==
    IF IsStr(method)
    THEN IF method.val \in DOMAIN mapping
         THEN [kind |-> "return",
               value |-> <<mapping[method.val][1], relative>>,
               methods |-> mapping]
         ELSE [kind |-> "raise", exc |-> "ValueError",
               message |-> [text |-> "Invalid regridding method. Available methods are: {}",
                            format |-> DOMAIN mapping],
               cause |-> [exc |-> "KeyError", key |-> method.val],
               methods |-> mapping]
    ELSE IF IsCallable(method)
    THEN [kind |-> "return", value |-> <<method, relative>>, methods |-> mapping]
    ELSE [kind |-> "raise", exc |-> "TypeError",
          message |-> [text |-> "method must be a string or callable", format |-> {}],
          cause |-> [exc |-> "None", key |-> ""],
          methods |-> mapping]

\* get_method letting the KeyError of the failed lookup escape
get_method_key_error(method, mapping, relative) ==
    IF IsStr(method)
    THEN IF method.val \in DOMAIN mapping
         THEN [kind |-> "return",
               value |-> <<mapping[method.val][1], mapping[method.val][2]>>,
               methods |-> mapping]
         ELSE [kind |-> "raise", exc |-> "KeyError",
               message |-> [text |-> "{}", format |-> {method.val}],
               cause |-> [exc |-> "None", key |-> ""],
               methods |-> mapping]
    ELSE IF IsCallable(method)
    THEN [kind |-> "return", value |-> <<method, relative>>, methods |-> mapping]
    ELSE [kind |-> "raise", exc |-> "TypeError",
          message |-> [text |-> "method must be a string or callable", format |-> {}],
          cause |-> [exc |-> "None", key |-> ""],
          methods |-> mapping]

\* get_method(method, methods, relative): what the call returns or raises, and
\* the mapping after the call.  A ValueError carries its message (the fixed
\* text and the formatted methods.keys()) and the KeyError it is raised from.
get_method(method, mapping, relative) ==
    IF IsStr(method)
    THEN IF method.val \in DOMAIN mapping
         THEN [kind |-> "return",
               value |-> <<mapping[method.val][1], mapping[method.val][2]>>,
               methods |-> mapping]
         ELSE [kind |-> "raise", exc |-> "ValueError",
               message |-> [text |-> "Invalid regridding method. Available methods are: {}",
                            format |-> DOMAIN mapping],
               cause |-> [exc |-> "KeyError", key |-> method.val],
               methods |-> mapping]
    ELSE IF IsCallable(method)
    THEN [kind |-> "return", value |-> <<method, relative>>, methods |-> mapping]
    ELSE [kind |-> "raise", exc |-> "TypeError",
          message |-> [text |-> "method must be a string or callable", format |-> {}],
          cause |-> [exc |-> "None", key |-> ""],
          methods |-> mapping]

\* ------------------------------------------------------------- inputs
\* values a source cell can hold: nodata, a negative number, zero, a positive one
CellValues == {NaN, F(-1), F(0), F(2)}

\* overlap weights; non-negative weights are expected and not enforced
CellWeights == {F(-1), F(0), F(1), F(2)}

SeqsOf(S, lo, hi) == UNION {[1..n -> S] : n \in lo..hi}

\* the values array of one regridding operation
ValueArrays == SeqsOf(CellValues, 1, NumCells)

\* the (indices, weights) slices of one destination cell: equal lengths, every
\* index a valid offset into vals
Slices(vals) ==
    UNION {[1..n -> (0..(Len(vals) - 1))] \X [1..n -> CellWeights] : n \in 0..MaxLen}

\* the method arguments tried
MethodArgs ==
    {Str(n) : n \in Names \cup {"nonexistent", "linear"}}
    \cup {Fn(n) : n \in {"max_overlap", "conductance", "user_kernel"}}
    \cup {Other("int", "42"), Other("NoneType", "None")}

\* ------------------------------------------------------------- state
VARIABLES
    values,     \* the values array
    indices,    \* the indices array of the latest kernel call
    weights,    \* the weights array of the latest kernel call, as the call left it
    args,       \* the three arrays as they were when that call started
    kernel,     \* the name of the kernel called, "" before any call
    result,     \* how the call ended: [pc |-> "done", ret] or [pc |-> "raise", exc]
    methods,    \* the registry mapping
    method,     \* the method argument of the latest get_method call
    relative,   \* its relative argument
    resolved,   \* what that call returned or raised
    procs       \* the concurrent kernel calls of SpecConc

vars == <<values, indices, weights, args, kernel, result,
          methods, method, relative, resolved, procs>>

NoCall == [pc |-> "none"]
NoMethod == Other("NoneType", "unset")
NoResolve == [kind |-> "none"]

Init ==
    /\ values \in ValueArrays
    /\ indices = <<>>
    /\ weights = <<>>
    /\ args = Mem(values, <<>>, <<>>)
    /\ kernel = ""
    /\ result = NoCall
    /\ methods = OVERLAP_METHODS
    /\ method = NoMethod
    /\ relative = FALSE
    /\ resolved = NoResolve
    /\ procs = <<>>

\* no call is in progress and no outcome is held
Idle == kernel = "" /\ resolved = NoResolve

\* the outer caller resolves a method
GetMethod ==
    /\ Idle
    /\ \E m \in MethodArgs, rel \in BOOLEAN :
       \E r \in {get_method(m, methods, rel)} :
        /\ method' = m
        /\ relative' = rel
        /\ resolved' = r
        /\ methods' = r.methods
        /\ UNCHANGED <<values, indices, weights, args, kernel, result, procs>>

\* the outer caller invokes one kernel on the fresh slice of a destination cell
CallKernel(name) ==
    /\ Idle
    /\ \E sl \in Slices(values) :
       \E r \in {Call(name, Mem(values, sl[1], sl[2]))} :
        /\ args' = Mem(values, sl[1], sl[2])
        /\ kernel' = name
        /\ result' = r.st
        /\ values' = r.mem.values
        /\ indices' = r.mem.indices
        /\ weights' = r.mem.weights
        /\ UNCHANGED <<methods, method, relative, resolved, procs>>

\* the outcome is consumed and the slice of the cell is discarded
Discard ==
    /\ ~Idle
    /\ indices' = <<>>
    /\ weights' = <<>>
    /\ args' = Mem(values, <<>>, <<>>)
    /\ kernel' = ""
    /\ result' = NoCall
    /\ method' = NoMethod
    /\ relative' = FALSE
    /\ resolved' = NoResolve
    /\ UNCHANGED <<values, methods, procs>>

Next ==
    \/ GetMethod
    \/ \E name \in Names : CallKernel(name)
    \/ Discard

Spec == Init /\ [][Next]_vars

\* ------------------------------------------------------------- concurrency
\* The values arrays and the slice of the concurrent calls: with either array,
\* mode merges the second entry of the slice into the first, so that it writes
\* its weights buffer while the other calls read theirs.
ConcValueArrays == {<<F(2), F(2)>>, <<F(2), NaN>>}
ConcSlices == {<<<<1, 0>>, <<F(1), F(2)>>>>}

\* a kernel call at its entry, with indices and weights buffers of its own
ConcCalls(vals) ==
    {[kernel |-> n, st |-> Entry(n), indices |-> sl[1], weights |-> sl[2],
      args |-> Mem(vals, sl[1], sl[2])] : n \in Names, sl \in ConcSlices}

Procs == 1..NumProcs

InitConc ==
    /\ values \in ConcValueArrays
    /\ procs \in [Procs -> ConcCalls(values)]
    /\ indices = <<>>
    /\ weights = <<>>
    /\ args = Mem(values, <<>>, <<>>)
    /\ kernel = ""
    /\ result = NoCall
    /\ methods = OVERLAP_METHODS
    /\ method = NoMethod
    /\ relative = FALSE
    /\ resolved = NoResolve

\* call p takes one step: it reads and writes the shared values array and its
\* own indices and weights buffers
ConcStep(p) ==
    /\ ~Ended(procs[p].st)
    /\ \E r \in {Step(procs[p].kernel, procs[p].st,
                      Mem(values, procs[p].indices, procs[p].weights))} :
        /\ values' = r.mem.values
        /\ procs' = [procs EXCEPT ![p].st = r.st,
                                  ![p].indices = r.mem.indices,
                                  ![p].weights = r.mem.weights]
    /\ UNCHANGED <<indices, weights, args, kernel, result,
                   methods, method, relative, resolved>>

NextConc == \E p \in Procs : ConcStep(p)

SpecConc == InitConc /\ [][NextConc]_vars

\* ------------------------------------------------------------- properties
\* the latest operation was a call of a kernel
KernelCalled == kernel \in Names

\* the latest operation was a call of get_method
MethodResolved == resolved.kind # "none"

\* the call returned (it did not raise)
Returned == result.pc = "done"

\* the slice of the call: its length, and per position the value and weight
SliceLen == Len(args.indices)
Positions == 0..(SliceLen - 1)
ValueAt(k) == At(args.values, At(args.indices, k))
WeightAt(k) == At(args.weights, k)

AllNodata == \A k \in Positions : isnan(ValueAt(k))
AllZeroWeight == \A k \in Positions : WeightAt(k) = F(0)

\* C1: get_method returns the registered (kernel, is_relative) pair for a
\* registered name whatever the relative argument is (is_relative is True for
\* "conductance" only), returns (method, relative) for a callable, and leaves
\* the methods mapping as it was.
C1_GetMethodReturns ==
    MethodResolved =>
        /\ (IsStr(method) /\ method.val \in Names) =>
              /\ resolved.kind = "return"
              /\ resolved.value = OVERLAP_METHODS[method.val]
              /\ resolved.value[1] = Fn(method.val)
              /\ resolved.value[2] = (method.val = "conductance")
        /\ IsCallable(method) =>
              /\ resolved.kind = "return"
              /\ resolved.value = <<method, relative>>
        /\ resolved.kind = "return" => methods = OVERLAP_METHODS

C1_Witness ==
    /\ MethodResolved
    /\ method = Str("conductance")
    /\ relative = FALSE
    /\ resolved.kind = "return"
    /\ resolved.value = <<Fn("conductance"), TRUE>>

\* C2 as stated: an unregistered string fails with a ValueError that names the
\* requested string and lists all registered names; a method that is neither
\* a string nor a callable fails with a TypeError; the mapping is unchanged.
C2_ErrorNamesRequest ==
    MethodResolved =>
        /\ (IsStr(method) /\ method.val \notin Names) =>
              /\ resolved.kind = "raise"
              /\ resolved.exc = "ValueError"
              /\ Names \subseteq resolved.message.format
              /\ method.val \in resolved.message.format
        /\ (~IsStr(method) /\ ~IsCallable(method)) =>
              /\ resolved.kind = "raise"
              /\ resolved.exc = "TypeError"
        /\ resolved.kind = "raise" => methods = OVERLAP_METHODS

\* C2 amended: the ValueError's message is the fixed text followed by the
\* registered names, the same for every requested string; the requested string
\* is carried only by the KeyError the ValueError is raised from.
C2_ErrorListsNames ==
    MethodResolved =>
        /\ (IsStr(method) /\ method.val \notin Names) =>
              /\ resolved.kind = "raise"
              /\ resolved.exc = "ValueError"
              /\ resolved.message =
                    [text |-> "Invalid regridding method. Available methods are: {}",
                     format |-> Names]
              /\ resolved.cause = [exc |-> "KeyError", key |-> method.val]
        /\ (~IsStr(method) /\ ~IsCallable(method)) =>
              /\ resolved.kind = "raise"
              /\ resolved.exc = "TypeError"
        /\ resolved.kind = "raise" => methods = OVERLAP_METHODS

C2_Witness ==
    /\ MethodResolved
    /\ method = Str("nonexistent")
    /\ resolved.kind = "raise"
    /\ resolved.exc = "ValueError"
    /\ "nonexistent" \notin resolved.message.format

\* C3: every kernel returns nodata for a non-empty slice whose values are all
\* nodata, whatever the weights are.
C3_AllNodataYieldsNodata ==
    (KernelCalled /\ SliceLen > 0 /\ AllNodata) =>
        (Returned /\ isnan(result.ret))

C3_Witness ==
    /\ kernel = "sum"
    /\ SliceLen > 1
    /\ AllNodata
    /\ \E k \in Positions : FGt(WeightAt(k), F(0))
    /\ Returned
    /\ isnan(result.ret)

\* C4: mean, harmonic_mean, geometric_mean, mode and conductance return nodata
\* for a non-empty slice whose weights are all zero, whatever the values are.
C4_ZeroWeightYieldsNodata ==
    (kernel \in {"mean", "harmonic_mean", "geometric_mean", "mode", "conductance"}
        /\ SliceLen > 0 /\ AllZeroWeight) =>
        (Returned /\ isnan(result.ret))

\* C5: no kernel raises for an input with equal lengths and valid indices (an
\* empty slice included), and the value returned is nodata when no entry
\* contributes.
C5_NeverRaises ==
    KernelCalled =>
        /\ Returned
        /\ AllNodata => isnan(result.ret)

\* C6: a kernel call leaves values and indices as they were, and every kernel
\* other than mode leaves weights as they were.
C6_Frame ==
    KernelCalled =>
        /\ values = args.values
        /\ indices = args.indices
        /\ kernel # "mode" => weights = args.weights

C6_Witness ==
    /\ kernel = "mode"
    /\ Returned
    /\ values = args.values
    /\ weights # args.weights

\* C7: on a single-entry slice [i], [w] with w > 0 and values[i] not nodata,
\* every kernel except conductance returns values[i], and conductance returns
\* values[i] * w.
C7_SingleElementIdentity ==
    (KernelCalled /\ SliceLen = 1 /\ FGt(WeightAt(0), F(0)) /\ ~isnan(ValueAt(0))) =>
        /\ Returned
        /\ result.ret = IF kernel = "conductance"
                        THEN FMul(ValueAt(0), WeightAt(0))
                        ELSE ValueAt(0)

\* C7 with the value 0 left out (harmonic_mean and geometric_mean skip a value
\* of exactly 0): still violated, by mode.
C7_NonZeroSingleElement ==
    (KernelCalled /\ SliceLen = 1 /\ FGt(WeightAt(0), F(0))
        /\ ~isnan(ValueAt(0)) /\ ValueAt(0) # F(0)) =>
        /\ Returned
        /\ result.ret = IF kernel = "conductance"
                        THEN FMul(ValueAt(0), WeightAt(0))
                        ELSE ValueAt(0)

\* the positions that hold the value of position k
SameValue(k) == {q \in Positions : FEq(ValueAt(q), ValueAt(k))}

\* the earliest position of each non-nodata value: its accumulator
Accumulators ==
    {k \in Positions : ~isnan(ValueAt(k)) /\ \A q \in SameValue(k) : k <= q}

RECURSIVE SumWeights(_)
SumWeights(P) ==
    IF P = {} THEN F(0)
    ELSE LET q == CHOOSE x \in P : TRUE
         IN  FAdd(WeightAt(q), SumWeights(P \ {q}))

\* the total of the original weights of the value of position k
TotalWeight(k) == SumWeights(SameValue(k))

\* the accumulators of greatest total weight
Heaviest ==
    {k \in Accumulators : \A q \in Accumulators : ~FGt(TotalWeight(q), TotalWeight(k))}

\* the area-weighted mode of values[indices]
WeightedMode ==
    IF Accumulators = {} THEN NaN
    ELSE ValueAt(CHOOSE k \in Heaviest : \A q \in Heaviest : k <= q)

\* C9: for non-negative weights, mode returns the non-nodata value of
\* values[indices] whose total original weight is greatest, a tie going to the value that occurs first,
\* and nodata when the slice holds no non-nodata value.
C9_ModeIsWeightedMode ==
    (kernel = "mode" /\ \A k \in Positions : ~FLt(WeightAt(k), F(0)))
        => (Returned /\ result.ret = WeightedMode)

\* C9 with every weight above 0 and no nodata value in the slice: still violated.
C9_PositiveWeightsMode ==
    (kernel = "mode" /\ \A k \in Positions : FGt(WeightAt(k), F(0)) /\ ~isnan(ValueAt(k)))
        => (Returned /\ result.ret = WeightedMode)

\* the positions whose weight is above 0 and above every earlier weight
Records ==
    {k \in Positions :
        /\ FGt(WeightAt(k), F(0))
        /\ \A e \in Positions : e < k => FGt(WeightAt(k), WeightAt(e))}

ValidRecords == {k \in Records : ~isnan(ValueAt(k))}

\* C10: max_overlap returns the value of the last position whose weight is
\* above 0 and above every earlier weight (nodata cells included in the
\* comparison) and whose value is not nodata; nodata when there is none.
C10_MaxOverlap ==
    kernel = "max_overlap" =>
        /\ Returned
        /\ result.ret = IF ValidRecords = {} THEN NaN
                        ELSE ValueAt(CHOOSE k \in ValidRecords :
                                         \A q \in ValidRecords : q <= k)

\* a nodata cell of record weight blocks a later valid cell of lower weight
C10_Witness ==
    /\ kernel = "max_overlap"
    /\ Returned
    /\ isnan(result.ret)
    /\ \E k \in Positions : ~isnan(ValueAt(k)) /\ FGt(WeightAt(k), F(0))

\* C8: concurrent kernel calls that share the values array and own their
\* indices and weights buffers are independent: under every interleaving of
\* their steps each call ends as it ends when run alone, with the same result
\* and the same final content of its weights buffer.
C8_Independent ==
    \A p \in DOMAIN procs :
        Ended(procs[p].st) =>
            LET alone == Call(procs[p].kernel, procs[p].args)
            IN  /\ procs[p].st = alone.st
                /\ procs[p].weights = alone.mem.weights
                /\ procs[p].indices = alone.mem.indices

\* a mode call finished, its weights buffer written, while another call that
\* started with it is still running
C8_Witness ==
    \E p, q \in DOMAIN procs :
        /\ p # q
        /\ procs[p].kernel = "mode"
        /\ Ended(procs[p].st)
        /\ procs[p].weights # procs[p].args.weights
        /\ procs[q].kernel = "mode"
        /\ ~Ended(procs[q].st)
        /\ procs[q].st.k > 0

====
